---- MODULE Spec2Model ----
(***************************************************************************)
(* A model of marketlearn's two-state Markov switching regression          *)
(* (src/marketlearn/learning/msr/markov_switching.py) and of the portfolio *)
(* whose covariance matrix is cached by asset name                         *)
(* (src/marketlearn/optimization/asset.py, portfolio/harry.py).            *)
(*                                                                         *)
(* Numbers.  numpy works on IEEE doubles; the model computes on exact      *)
(* values extended with the IEEE specials.  A number is a record           *)
(*     [k, n, d, e]                                                        *)
(*   k = "fin" : the real (n/d) * pi^e, in lowest terms, d > 0             *)
(*   k = "ln"  : the real ln((n/d) * pi^e)   (logits, logarithms)          *)
(*   k = "nan", "pinf", "ninf" : NaN, +inf, -inf                           *)
(* Rounding and signed zeros are not modelled; 0/0 is NaN and x/0 is an    *)
(* infinity, as numpy computes them (with a warning, without raising).     *)
(* An operation whose exact result has no such representation is not       *)
(* defined: it evaluates Undefined, which stops the model checker.         *)
(*                                                                         *)
(* Style.  TLC evaluates a LET definition again at every use but an        *)
(* operator argument once, so a value that is used several times is passed *)
(* to a continuation operator: F(x) == FThen(x, G(x)).                     *)
(***************************************************************************)
EXTENDS Integers, Sequences, FiniteSets, TLC

VARIABLES self, lik, pdf, fit, memo, all_assets, cache, portfolios

vars == <<self, lik, pdf, fit, memo, all_assets, cache, portfolios>>

----------------------------------------------------------------------------
(* Exact arithmetic with NaN and infinities *)

Undefined == CHOOSE x \in {} : TRUE

Abs(i) == IF i < 0 THEN -i ELSE i

RECURSIVE Gcd(_, _)
Gcd(a, b) == IF b = 0 THEN a ELSE Gcd(b, a % b)

Num(k, n, d, e) == [k |-> k, n |-> n, d |-> d, e |-> e]

NaN == Num("nan", 0, 1, 0)

PInf == Num("pinf", 0, 1, 0)

NInf == Num("ninf", 0, 1, 0)

\* (n/d) * pi^e in canonical form
Fin(n, d, e) ==
    IF n = 0 THEN Num("fin", 0, 1, 0)
    ELSE LET g == Gcd(Abs(n), Abs(d))
             sg == IF d < 0 THEN -1 ELSE 1
         IN  Num("fin", sg * (n \div g), sg * (d \div g), e)

Q(n, d) == Fin(n, d, 0)

I(n) == Fin(n, 1, 0)

Zero == I(0)

One == I(1)

Pi == Fin(1, 1, 1)

\* ln(n/d), a logit whose exponential is rational
Ln(n, d) == LET g == Gcd(n, d) IN Num("ln", n \div g, d \div g, 0)

IsFin(a) == a.k = "fin"

IsNaN(a) == a.k = "nan"

IsInf(a) == a.k \in {"pinf", "ninf"}

IsZero(a) == a.k = "fin" /\ a.n = 0

\* -1, 0, 1 for a finite or infinite number
Sign(a) ==
    CASE a.k = "pinf" -> 1
      [] a.k = "ninf" -> -1
      [] a.k = "fin" -> (IF a.n > 0 THEN 1 ELSE IF a.n < 0 THEN -1 ELSE 0)
      [] OTHER -> Undefined

Signed(s) == IF s > 0 THEN PInf ELSE NInf

Neg(a) ==
    CASE a.k = "nan" -> NaN
      [] a.k = "pinf" -> NInf
      [] a.k = "ninf" -> PInf
      [] a.k = "fin" -> Fin(-a.n, a.d, a.e)
      [] a.k = "ln" -> Num("ln", a.d, a.n, -a.e)

Add(a, b) ==
    CASE IsNaN(a) \/ IsNaN(b) -> NaN
      [] IsInf(a) /\ IsInf(b) -> (IF a.k = b.k THEN a ELSE NaN)
      [] IsInf(a) -> a
      [] IsInf(b) -> b
      [] IsZero(a) -> b
      [] IsZero(b) -> a
      [] IsFin(a) /\ IsFin(b) /\ a.e = b.e ->
            Fin(a.n * b.d + b.n * a.d, a.d * b.d, a.e)
      [] a.k = "ln" /\ b.k = "ln" ->
            Num("ln", (a.n * b.n) \div Gcd(a.n * b.n, a.d * b.d),
                      (a.d * b.d) \div Gcd(a.n * b.n, a.d * b.d), a.e + b.e)
      [] OTHER -> Undefined

Sub(a, b) == Add(a, Neg(b))

Mul(a, b) ==
    CASE IsNaN(a) \/ IsNaN(b) -> NaN
      [] IsInf(a) \/ IsInf(b) ->
            (IF IsZero(a) \/ IsZero(b) THEN NaN ELSE Signed(Sign(a) * Sign(b)))
      [] IsFin(a) /\ IsFin(b) -> Fin(a.n * b.n, a.d * b.d, a.e + b.e)
      [] OTHER -> Undefined

Div(a, b) ==
    CASE IsNaN(a) \/ IsNaN(b) -> NaN
      [] IsInf(a) /\ IsInf(b) -> NaN
      [] IsInf(a) -> (IF Sign(b) < 0 THEN Neg(a) ELSE a)
      [] IsInf(b) -> Zero
      [] IsFin(a) /\ IsZero(b) -> (IF IsZero(a) THEN NaN ELSE Signed(Sign(a)))
      [] IsFin(a) /\ IsFin(b) -> Fin(a.n * b.d, a.d * b.n, a.e - b.e)
      [] OTHER -> Undefined

\* the integer square root of a perfect square
ISqrt(m) == CHOOSE r \in 0..m : r * r = m

Sqrt(a) ==
    CASE IsNaN(a) -> NaN
      [] a.k = "pinf" -> PInf
      [] a.k = "ninf" -> NaN
      [] IsFin(a) /\ a.n < 0 -> NaN
      [] IsFin(a) /\ a.e % 2 = 0 -> Fin(ISqrt(a.n), ISqrt(a.d), a.e \div 2)
      [] OTHER -> Undefined

Exp(a) ==
    CASE IsNaN(a) -> NaN
      [] a.k = "pinf" -> PInf
      [] a.k = "ninf" -> Zero
      [] a.k = "ln" -> Fin(a.n, a.d, a.e)
      [] IsZero(a) -> One
      [] OTHER -> Undefined

Log(a) ==
    CASE IsNaN(a) -> NaN
      [] a.k = "pinf" -> PInf
      [] a.k = "ninf" -> NaN
      [] IsFin(a) /\ a.n < 0 -> NaN
      [] IsZero(a) -> NInf
      [] a = One -> Zero
      [] IsFin(a) -> Num("ln", a.n, a.d, a.e)
      [] OTHER -> Undefined

----------------------------------------------------------------------------
(* Vectors are sequences of numbers, matrices sequences of rows *)

RECURSIVE SumSeq(_)
SumSeq(v) == IF v = <<>> THEN Zero ELSE Add(Head(v), SumSeq(Tail(v)))

Dot(u, v) == SumSeq([i \in 1..Len(u) |-> Mul(u[i], v[i])])

Hadamard(u, v) == [i \in 1..Len(u) |-> Mul(u[i], v[i])]

MatVec(M, v) == [i \in 1..Len(M) |-> Dot(M[i], v)]

Zeros(n) == [i \in 1..n |-> Zero]

----------------------------------------------------------------------------
(* MarkovSwitchingRegression: the pure helpers *)

\* __init__: the attributes the constructor sets; beta, var, xt, yt are the
\* attributes _normpdf adds later (has = FALSE while they do not exist)
NewEstimator(degree, regime, fit_intercept) ==
    [degree |-> degree, regime |-> regime, fit_intercept |-> fit_intercept,
     has |-> FALSE, beta |-> <<>>, var |-> Zero, xt |-> <<>>, yt |-> Zero]

\* _sigmoid: 1.0 / (1 + np.exp(-z))
Sigmoid(z) == Div(One, Add(One, Exp(Neg(z))))

\* _transition_matrix with the second row's two assignments exchanged
TransitionMatrixSwapped(pii, pjj) ==
    << <<pii, Sub(One, pii)>>, <<pjj, Sub(One, pjj)>> >>

\* _transition_matrix
TransitionMatrix(pii, pjj) ==
    << <<pii, Sub(One, pii)>>, <<Sub(One, pjj), pjj>> >>

\* A.T @ A and A.T @ b for a matrix A of two columns
Gram(A) ==
    [i \in 1..2 |-> [j \in 1..2 |->
        SumSeq([r \in 1..Len(A) |-> Mul(A[r][i], A[r][j])])]]

TransposeVec(A, b) ==
    [i \in 1..2 |-> SumSeq([r \in 1..Len(A) |-> Mul(A[r][i], b[r])])]

\* _linear_solve for a matrix A of two columns: the Cholesky factor M of
\* G = A.T @ A has M11^2 = G11, M21 = G21 / M11 and M22^2 = G22 - G21^2 / G11;
\* np.linalg.cholesky raises LinAlgError unless both squares are positive.  The
\* two triangular solves M v = c, M.T x = v give
\*     x2 = (c2 - G21 c1 / G11) / M22^2,   x1 = (c1 - G21 x2) / G11,
\* in which the square roots have cancelled.
BackSubstitute(G, c, x2) ==
    [err |-> "", x |-> <<Div(Sub(c[1], Mul(G[2][1], x2)), G[1][1]), x2>>]

SolveFactored(G, c, m22sq) ==
    IF Sign(G[1][1]) <= 0 \/ Sign(m22sq) <= 0
    THEN [err |-> "LinAlgError", x |-> <<>>]
    ELSE BackSubstitute(G, c,
            Div(Sub(c[2], Div(Mul(G[2][1], c[1]), G[1][1])), m22sq))

SolveNormal(G, c) ==
    SolveFactored(G, c, Sub(G[2][2], Div(Mul(G[2][1], G[2][1]), G[1][1])))

LinearSolve(A, b) == SolveNormal(Gram(A), TransposeVec(A, b))

\* the test written against the number of regimes, "s not in (0, 1, 2)"
RegimeSupportedUpTo2(s) == s \in {0, 1, 2}

\* the test "s not in (0, 1)" of _beta and _var, negated
RegimeSupported(s) == s \in {0, 1}

RegimeError == "ValueError: state regime not supported"

\* _beta
Beta(s, params1, params2) ==
    [err |-> IF RegimeSupported(s) THEN "" ELSE RegimeError,
     val |-> IF s = 0 THEN params1 ELSE params2]

\* _var
Var(s, var1, var2) ==
    [err |-> IF RegimeSupported(s) THEN "" ELSE RegimeError,
     val |-> IF s = 0 THEN var1 ELSE var2]

\* Python's v[lo:hi] for lo >= 0; a negative hi counts from the end
Slice(v, lo, hi) ==
    LET h == IF hi < 0 THEN Len(v) + hi ELSE IF hi > Len(v) THEN Len(v) ELSE hi
    IN  IF lo >= h THEN <<>> ELSE SubSeq(v, lo + 1, h)

\* the outcome of a call of _normpdf: the exception raised ("" for none), the
\* value returned, the estimator afterwards, and the locals beta and var
PdfOutcome(err, ret, slf, beta, var) ==
    [err |-> err, ret |-> ret, slf |-> slf, beta |-> beta, var |-> var]

\* _normpdf, lines 112-115, from the residual yt - xt @ beta
DensityOf(resid, var) ==
    Div(Div(Mul(resid, resid), Mul(I(-2), var)),
        Sqrt(Mul(Mul(I(2), Pi), var)))

DensityValue(xt, yt, beta, var) == DensityOf(Sub(yt, Dot(xt, beta)), var)

\* _normpdf, lines 107-115: the attributes are written, then xt @ beta raises
\* when the lengths differ
NormpdfStore(slf, xt, yt, beta, var) ==
    IF Len(xt) # Len(beta)
    THEN PdfOutcome("ValueError: matmul", NaN, slf, beta, var)
    ELSE PdfOutcome("", DensityValue(xt, yt, beta, var), slf, beta, var)

\* _normpdf, line 106: params2[0] or params2[1] raises IndexError before _var
\* is entered
NormpdfVar(slf, s, xt, yt, params2, beta) ==
    IF Len(params2) < 2 THEN PdfOutcome("IndexError", NaN, slf, beta, NaN)
    ELSE IF Var(s, params2[1], params2[2]).err # ""
         THEN PdfOutcome(Var(s, params2[1], params2[2]).err, NaN, slf, beta, NaN)
    ELSE NormpdfStore(
            [slf EXCEPT !.has = TRUE, !.beta = beta,
                        !.var = Var(s, params2[1], params2[2]).val,
                        !.xt = xt, !.yt = yt],
            xt, yt, beta, Var(s, params2[1], params2[2]).val)

\* _normpdf, line 105
NormpdfBeta(slf, s, xt, yt, params1, params2) ==
    IF Beta(s, Slice(params1, 0, 2), Slice(params1, 2, Len(params1))).err # ""
    THEN PdfOutcome(RegimeError, NaN, slf, <<>>, NaN)
    ELSE NormpdfVar(slf, s, xt, yt, params2,
            Beta(s, Slice(params1, 0, 2), Slice(params1, 2, Len(params1))).val)

\* _normpdf
Normpdf(slf, s, xt, yt, guess) ==
    NormpdfBeta(slf, s, xt, yt, Slice(guess, 0, 4), Slice(guess, 4, -2))

----------------------------------------------------------------------------
(* The Hamilton filter of _loglikelihood *)

\* np.zeros((n, k))
ZerosMat(n, k) == [t \in 1..n |-> Zeros(k)]

\* eta_t kept from the evaluation before instead of allocated: every entry
\* still holds the density the estimator computed last
AllocEtaStale(slf, n) ==
    IF slf.has /\ Len(slf.xt) = Len(slf.beta)
    THEN [t \in 1..n |->
            [j \in 1..slf.regime |-> DensityValue(slf.xt, slf.yt, slf.beta, slf.var)]]
    ELSE [t \in 1..n |-> [j \in 1..slf.regime |-> Zero]]

\* line 138, eta_t = np.zeros((n_samples, self.regime))
AllocEta(slf, n) == ZerosMat(n, slf.regime)

\* lines 146-149: A = np.concatenate((ones - P, ones.T)) with ones of shape
\* (2, 1), which broadcasts to the matrix of 1 - P[i][j]; b = (0, 0, 1)
SeedMatrix(P) ==
    << <<Sub(One, P[1][1]), Sub(One, P[1][2])>>,
       <<Sub(One, P[2][1]), Sub(One, P[2][2])>>,
       <<One, One>> >>

SeedRhs(slf) == [i \in 1..(slf.regime + 1) |-> IF i = slf.regime + 1 THEN One ELSE Zero]

\* lines 151 and 166, P @ hfilter[t]
Predict(P, h) == MatVec(P, h)

\* the two calls of _normpdf for one observation (lines 156-157, 167-168):
\* the exception of the first call that raises, the densities, the estimator
DensitiesBoth(d0, d1) ==
    IF d1.err # "" THEN [err |-> d1.err, val |-> <<>>, slf |-> d1.slf]
    ELSE [err |-> "", val |-> <<d0.ret, d1.ret>>, slf |-> d1.slf]

DensitiesFirst(xt, yt, theta, d0) ==
    IF d0.err # "" THEN [err |-> d0.err, val |-> <<>>, slf |-> d0.slf]
    ELSE DensitiesBoth(d0, Normpdf(d0.slf, 1, xt, yt, theta))

Densities(slf, xt, yt, theta) ==
    DensitiesFirst(xt, yt, theta, Normpdf(slf, 0, xt, yt, theta))

\* The locals of _loglikelihood.  Rows are numbered from 1: row t + 1 is the
\* code's row t.  weights[t + 1] is the local `exponent` of iteration t.
\* lines 136-139 and 154-155: the matrices, all zeros
FilterAlloc(slf, n, P) ==
    [err |-> "", slf |-> slf, P |-> P,
     hfilter |-> ZerosMat(n, slf.regime),
     predictions |-> ZerosMat(n, slf.regime),
     eta_t |-> AllocEta(slf, n),
     cond_density |-> Zeros(n),
     weights |-> ZerosMat(n, slf.regime)]

\* lines 156-158
FilterFirst(st, dens) ==
    IF dens.err # "" THEN [st EXCEPT !.err = dens.err, !.slf = dens.slf]
    ELSE [st EXCEPT !.slf = dens.slf, !.eta_t[1] = dens.val]

\* lines 150-151
FilterSeed(st, X, y, theta, sol) ==
    IF sol.err # "" THEN [st EXCEPT !.err = sol.err]
    ELSE FilterFirst(
            [st EXCEPT !.hfilter[1] = sol.x, !.predictions[1] = Predict(st.P, sol.x)],
            Densities(st.slf, X[1], y[1], theta))

\* lines 136-158, up to the first iteration of the loop
FilterStart(slf, X, y, theta) ==
    FilterSeed(
        FilterAlloc(slf, Len(X),
            TransitionMatrix(Sigmoid(theta[Len(theta) - 1]), Sigmoid(theta[Len(theta)]))),
        X, y, theta,
        LinearSolve(
            SeedMatrix(TransitionMatrix(Sigmoid(theta[Len(theta) - 1]),
                                        Sigmoid(theta[Len(theta)]))),
            SeedRhs(slf)))

\* lines 167-169
StepDensities(st, i, dens) ==
    IF dens.err # "" THEN [st EXCEPT !.err = dens.err, !.slf = dens.slf]
    ELSE [st EXCEPT !.slf = dens.slf, !.eta_t[i] = dens.val]

\* lines 165-166
StepFilter(st, i, h) ==
    [st EXCEPT !.hfilter[i] = h, !.predictions[i] = Predict(st.P, h)]

\* lines 163-165
StepWeights(st, i, exponent, loglik) ==
    StepFilter([st EXCEPT !.weights[i] = exponent, !.cond_density[i] = loglik],
               i, [j \in 1..Len(exponent) |-> Div(exponent[j], loglik)])

StepSum(st, i, exponent) == StepWeights(st, i, exponent, SumSeq(exponent))

\* lines 162-169, the body of the loop for the code's t = i - 1
FilterStep(st, i, X, y, theta) ==
    StepDensities(
        StepSum(st, i, Hadamard(st.predictions[i - 1], st.eta_t[i])),
        i, Densities(st.slf, X[i], y[i], theta))

\* line 161, for t in range(1, n_samples)
RECURSIVE FilterLoop(_, _, _, _, _)
FilterLoop(st, i, X, y, theta) ==
    IF i > Len(X) \/ st.err # "" THEN st
    ELSE FilterLoop(FilterStep(st, i, X, y, theta), i + 1, X, y, theta)

\* np.log(cond_density).mean()
MeanLog(v) == Div(SumSeq([i \in 1..Len(v) |-> Log(v[i])]), I(Len(v)))

\* line 172: np.log(cond_density), the terms the mean is taken over
LogTerms(v) == [i \in 1..Len(v) |-> Log(v[i])]

\* line 172: the locals at the end, and the value returned
LoglikelihoodReturn(st) ==
    [err |-> st.err, slf |-> st.slf, P |-> st.P, hfilter |-> st.hfilter,
     predictions |-> st.predictions, eta_t |-> st.eta_t,
     cond_density |-> st.cond_density, weights |-> st.weights,
     logs |-> IF st.err = "" THEN LogTerms(st.cond_density) ELSE <<>>,
     ret |-> IF st.err = "" THEN MeanLog(st.cond_density) ELSE NaN]

\* _loglikelihood
Loglikelihood(slf, X, y, theta) ==
    LoglikelihoodReturn(FilterLoop(FilterStart(slf, X, y, theta), 2, X, y, theta))

\* _objective_func, line 190
Negated(f) == [f EXCEPT !.ret = Neg(f.ret)]

\* _objective_func
ObjectiveFunc(slf, guess, X, y) == Negated(Loglikelihood(slf, X, y, guess))

----------------------------------------------------------------------------
(* fit *)

\* the products row[i] * row[j], i <= j, in PolynomialFeatures' order
RECURSIVE Degree2Terms(_, _)
Degree2Terms(row, i) ==
    IF i > Len(row) THEN <<>>
    ELSE [j \in 1..(Len(row) - i + 1) |-> Mul(row[i], row[i + j - 1])]
         \o Degree2Terms(row, i + 1)

\* _make_polynomial for degree 1 or 2: PolynomialFeatures(degree, include_bias)
MakePolynomial(slf, X) ==
    [t \in 1..Len(X) |->
        (IF slf.fit_intercept THEN <<One>> ELSE <<>>)
        \o X[t]
        \o (IF slf.degree >= 2 THEN Degree2Terms(X[t], 1) ELSE <<>>)]

RECURSIVE Flatten(_)
Flatten(M) == IF M = <<>> THEN <<>> ELSE Head(M) \o Flatten(Tail(M))

\* ndarray.var(ddof=1) of all the entries: NaN (0/0) for a single entry
SampleVar(v) ==
    LET mean == Div(SumSeq(v), I(Len(v)))
        dev == [i \in 1..Len(v) |-> Mul(Sub(v[i], mean), Sub(v[i], mean))]
    IN  Div(SumSeq(dev), I(Len(v) - 1))

\* line 233, the starting point
InitialGuess(X, y) ==
    <<Q(1, 5), Q(3, 10), Q(2, 5), Q(3, 5),
      SampleVar(y), SampleVar(Flatten(X)), Q(1, 2), Q(1, 2)>>

\* the methods the class defines; fit calls self._filtered_probabalities
Methods ==
    {"__init__", "_sigmoid", "_make_polynomial", "_linear_solve", "_beta",
     "_var", "_normpdf", "_loglikelihood", "_objective_func",
     "_transition_matrix", "fit"}

BoolInt(b) == IF b THEN 1 ELSE 0

NoFit == [pc |-> "idle", evaluated |-> FALSE]

Running == fit.pc \in {"expand", "guess", "filter"}

----------------------------------------------------------------------------
(* Asset and Harry: the portfolio and its cached covariance matrix *)

\* The prices of the model are powers of two, so that every log return is a
\* whole multiple of ln 2: returns are counted in units of ln 2, covariances
\* in units of (ln 2)^2.
RECURSIVE Log2(_)
Log2(n) == IF n <= 1 THEN 0 ELSE 1 + Log2(n \div 2)

\* Asset.__init__, line 22: log(1 + price_history.pct_change()); the first
\* entry has no price before it and is nan
ReturnsHistory(price_history) ==
    [t \in 1..Len(price_history) |->
        IF t = 1 THEN NaN
        ELSE I(Log2(price_history[t]) - Log2(price_history[t - 1]))]

NotNaN(a) == ~IsNaN(a)

\* pandas' sum and mean skip the nan entries of a series
SkipNaN(v) == SelectSeq(v, NotNaN)

Mean(v) == Div(SumSeq(v), I(Len(v)))

TRADING_DAYS_PER_YEAR == 252

\* Asset._get_expected_returns
GetExpectedReturns(returns_history) ==
    Mul(I(TRADING_DAYS_PER_YEAR), Mean(SkipNaN(returns_history)))

\* Asset.__init__, lines 19-24: the attributes, the returns once computed
AssetOf(name, price_history, returns_history) ==
    [name |-> name, price_history |-> price_history,
     size |-> Len(price_history), returns_history |-> returns_history,
     annualized_returns |-> SumSeq(SkipNaN(returns_history)),
     expected_returns |-> GetExpectedReturns(returns_history)]

\* Asset(name, price_history)
Asset(name, price_history) ==
    AssetOf(name, price_history, ReturnsHistory(price_history))

\* Asset.__hash__: hash(self.name); a name stands for its own hash
AssetHash(a) == a.name

\* an equality that also compares the prices
AssetEqByPrices(a, b) == a.name = b.name /\ a.price_history = b.price_history

\* Asset.__eq__; every object compared is an Asset
AssetEq(a, b) == a.name = b.name

\* the hash of a tuple is a function of its elements' hashes
TupleHash(assets) == [i \in DOMAIN assets |-> AssetHash(assets[i])]

\* tuples are equal when they have one length and equal elements
TupleEq(u, v) == Len(u) = Len(v) /\ \A i \in DOMAIN u : AssetEq(u[i], v[i])

\* line 52: one row of zt, a.returns_history - a.expected_returns
Demeaned(a) ==
    [t \in DOMAIN a.returns_history |-> Sub(a.returns_history[t], a.expected_returns)]

\* line 52: zt, one row for each asset
Zt(assets) == [i \in DOMAIN assets |-> Demeaned(assets[i])]

\* line 53: ~isnan(zt.T).any(axis=1), the dates at which no asset has a nan
CompleteDates(zt) ==
    [t \in 1..Len(zt[1]) |-> \A i \in DOMAIN zt : ~IsNaN(zt[i][t])]

\* the entries of v at the dates kept
RECURSIVE Compress(_, _)
Compress(v, keep) ==
    IF v = <<>> THEN <<>>
    ELSE (IF Head(keep) THEN <<Head(v)>> ELSE <<>>) \o Compress(Tail(v), Tail(keep))

Centered(v) == [t \in DOMAIN v |-> Sub(v[t], Mean(v))]

\* numpy.cov of two variables: the sample covariance, N - 1 in the divisor
SampleCov(u, v) == Div(Dot(Centered(u), Centered(v)), I(Len(u) - 1))

\* line 53: cov(zt.T[...], rowvar=False), for two assets or more
CovOfRows(zt, keep) ==
    [i \in DOMAIN zt |->
        [j \in DOMAIN zt |-> SampleCov(Compress(zt[i], keep), Compress(zt[j], keep))]]

CovOf(zt) == CovOfRows(zt, CompleteDates(zt))

\* Asset.covariance_matrix, lines 51-53: the body under the cache
CovarianceBody(assets) == CovOf(Zt(assets))

\* @lru_cache without arguments keeps at most 128 results
maxsize == 128

\* the cache of Asset.covariance_matrix: the entries, least recently used
\* first, each holding the tuple it was called with and the result, and the
\* counters of cache_info()
EmptyCache == [entries |-> <<>>, hits |-> 0, misses |-> 0]

\* the entries a call with the tuple key finds: equal hash, then equal tuple
Found(entries, key) ==
    {i \in DOMAIN entries :
        /\ TupleHash(entries[i].key) = TupleHash(key)
        /\ TupleEq(entries[i].key, key)}

Without(entries, i) == SubSeq(entries, 1, i - 1) \o SubSeq(entries, i + 1, Len(entries))

\* a hit: the stored result is returned and the entry becomes the most recent
CacheHit(c, i) ==
    [cache |-> [entries |-> Without(c.entries, i) \o <<c.entries[i]>>,
                hits |-> c.hits + 1, misses |-> c.misses],
     result |-> c.entries[i].result]

\* a full cache drops its least recently used entry
Evicted(entries) == IF Len(entries) >= maxsize THEN Tail(entries) ELSE entries

\* a miss: the body has run, and its result is stored under the tuple
CacheMiss(c, key, result) ==
    [cache |-> [entries |-> Evicted(c.entries) \o <<[key |-> key, result |-> result]>>,
                hits |-> c.hits, misses |-> c.misses + 1],
     result |-> result]

CovarianceLookup(c, assets, found) ==
    IF found # {} THEN CacheHit(c, CHOOSE i \in found : TRUE)
    ELSE CacheMiss(c, assets, CovarianceBody(assets))

\* Asset.covariance_matrix(assets), through the cache c
CovarianceMatrix(c, assets) == CovarianceLookup(c, assets, Found(c.entries, assets))

Diag(m) == [i \in DOMAIN m |-> m[i][i]]

\* Harry.__init__, line 39: the Asset of each column, in the columns' order
FrameAssets(historical_prices) ==
    [i \in DOMAIN historical_prices.columns |->
        Asset(historical_prices.columns[i], historical_prices.prices[i])]

\* Harry.__init__, lines 44-53: the attributes, the covariance once returned
HarryOf(assets, covariance_matrix, risk_free_rate) ==
    [assets |-> assets,
     covariance_matrix |-> covariance_matrix,
     asset_expected_returns |-> [i \in DOMAIN assets |-> assets[i].expected_returns],
     asset_expected_vol |-> [i \in DOMAIN assets |-> Sqrt(Diag(covariance_matrix)[i])],
     security_count |-> Len(assets),
     risk_free_rate |-> risk_free_rate]

----------------------------------------------------------------------------
(* Inputs *)

\* the largest number of observations
MaxN == 3

RECURSIVE Pow(_, _)
Pow(x, k) == IF k = 0 THEN 1 ELSE x * Pow(x, k - 1)

\* observations (x, y)
ObsPoints == {<<0, 1>>, <<1, 5>>}

\* a design row of p features: 1, x, x^2, ...
Row(p, x) == [j \in 1..p |-> I(Pow(x, j - 1))]

Series == UNION {[1..n -> ObsPoints] : n \in 1..MaxN}

DataOf(p, pts) ==
    [X |-> [t \in 1..Len(pts) |-> Row(p, pts[t][1])],
     y |-> [t \in 1..Len(pts) |-> I(pts[t][2])]]

Data(p) == {DataOf(p, pts) : pts \in Series}

\* pairs of logits ln(a/b): the stay probabilities are a/(a+b), here
\* (1/3, 4/5), (1/2, 2/3), (2/3, 2/3) and (1/2, 1/2)
LogitPairs ==
    {<<Ln(1, 2), Ln(4, 1)>>, <<Ln(1, 1), Ln(2, 1)>>,
     <<Ln(2, 1), Ln(2, 1)>>, <<Ln(1, 1), Ln(1, 1)>>}

\* variances r^2 / (2 pi): positive, and 2 pi var is the square of r
VarOf(r) == Fin(r * r, 2, -1)

\* a parameter vector for p features: coefficients 1..p of regime 0, p+1..2p of
\* regime 1, the two variances, the two logits
ThetaOf(p, r, z) ==
    [i \in 1..(2 * p) |-> I(i)] \o <<VarOf(r[1]), VarOf(r[2])>> \o <<z[1], z[2]>>

Thetas(p) ==
    IF p = 2 THEN {ThetaOf(p, <<1, 2>>, z) : z \in LogitPairs}
    ELSE {ThetaOf(p, <<1, 2>>, <<Ln(1, 2), Ln(4, 1)>>)}

\* the numbers of features the density is called with, and those of the
\* design matrices the objective is called with
FeatureCounts == {1, 2, 3}

DesignWidths == {2, 3}

Regimes == {-1, 0, 1, 2}

----------------------------------------------------------------------------
(* The operations *)

NoLik == [called |-> FALSE]

NoPdf == [called |-> FALSE]

NoMemo == [kept |-> FALSE]

\* no Asset and no Harry has been constructed, the cache is empty
NoPortfolio == all_assets = <<>> /\ cache = EmptyCache /\ portfolios = <<>>

Init ==
    /\ self = NewEstimator(1, 2, TRUE)
    /\ lik = NoLik
    /\ pdf = NoPdf
    /\ fit = NoFit
    /\ memo = NoMemo
    /\ NoPortfolio

\* a call of _objective_func(guess, X, y), as the minimizer would make it
ObjectiveDone(guess, X, y, r) ==
    /\ self' = r.slf
    /\ lik' = [called |-> TRUE, guess |-> guess, X |-> X, y |-> y,
               err |-> r.err, ret |-> r.ret, P |-> r.P,
               hfilter |-> r.hfilter, predictions |-> r.predictions,
               eta_t |-> r.eta_t, cond_density |-> r.cond_density,
               weights |-> r.weights, logs |-> r.logs]
    /\ pdf' = NoPdf
    /\ fit' = IF Running THEN [fit EXCEPT !.evaluated = TRUE] ELSE fit

\* an evaluation of the objective; one made while fit runs is noted in fit
ObjectiveCall(guess, X, y) ==
    ObjectiveDone(guess, X, y, ObjectiveFunc(self, guess, X, y))

\* a call of _normpdf(s, xt, yt, guess)
NormpdfDone(s, xt, yt, guess, r) ==
    /\ self' = r.slf
    /\ pdf' = [called |-> TRUE, s |-> s, xt |-> xt, yt |-> yt,
               guess |-> guess, err |-> r.err, ret |-> r.ret,
               beta |-> r.beta, var |-> r.var]
    /\ lik' = NoLik
    /\ UNCHANGED fit

NormpdfCall(s, xt, yt, guess) ==
    NormpdfDone(s, xt, yt, guess, Normpdf(self, s, xt, yt, guess))

\* fit, line 226: the call begins; p_features = X.shape[1]
FitBegin(X, y) ==
    /\ ~Running
    /\ fit' = [pc |-> "expand", evaluated |-> FALSE, X |-> X, y |-> y,
               p_features |-> Len(X[1])]
    /\ UNCHANGED <<self, lik, pdf, memo, all_assets, cache, portfolios>>

\* fit, line 227: X = self._make_polynomial(X)
FitExpand ==
    /\ fit.pc = "expand"
    /\ fit' = [fit EXCEPT !.pc = "guess", !.X = MakePolynomial(self, fit.X)]
    /\ UNCHANGED <<self, lik, pdf, memo, all_assets, cache, portfolios>>

\* fit, lines 231-233: k and the starting point
FitGuess ==
    /\ fit.pc = "guess"
    /\ fit' = [pc |-> "filter", evaluated |-> fit.evaluated, X |-> fit.X,
               y |-> fit.y, p_features |-> fit.p_features,
               k |-> 2 * (BoolInt(self.fit_intercept) + fit.p_features) * self.regime,
               params |-> InitialGuess(fit.X, fit.y)]
    /\ UNCHANGED <<self, lik, pdf, memo, all_assets, cache, portfolios>>

\* fit, line 234: self._filtered_probabalities is looked up; the class defines
\* no such method and no instance attribute has the name, so the lookup raises
\* AttributeError and fit ends there (line 235 is never reached)
FitFilter ==
    /\ fit.pc = "filter"
    /\ "_filtered_probabalities" \notin Methods
    /\ fit' = [pc |-> "raised", evaluated |-> fit.evaluated, err |-> "AttributeError"]
    /\ UNCHANGED <<self, lik, pdf, memo, all_assets, cache, portfolios>>

\* The estimator is used from one thread: no call begins while fit runs.
Objective ==
    \E p \in DesignWidths : \E guess \in Thetas(p), D \in Data(p) :
        /\ ~Running
        /\ ObjectiveCall(guess, D.X, D.y)
        /\ UNCHANGED <<memo, all_assets, cache, portfolios>>

Density ==
    \E p \in FeatureCounts : \E guess \in Thetas(p), s \in Regimes, pt \in ObsPoints :
        /\ ~Running
        /\ NormpdfCall(s, Row(p, pt[1]), I(pt[2]), guess)
        /\ UNCHANGED <<memo, all_assets, cache, portfolios>>

Next == Objective \/ Density

\* direct calls of the objective and of the density on one estimator
Spec == Init /\ [][Next]_vars

----------------------------------------------------------------------------
(* fit on an estimator of any configuration *)

\* raw design rows of q features
RawRow(q, x) == [j \in 1..q |-> I(x + j - 1)]

RawData(q) ==
    {[X |-> [t \in 1..Len(pts) |-> RawRow(q, pts[t][1])],
      y |-> [t \in 1..Len(pts) |-> I(pts[t][2])]] : pts \in Series}

InitFit ==
    /\ self \in {NewEstimator(degree, 2, bias) : degree \in {1, 2}, bias \in BOOLEAN}
    /\ lik = NoLik
    /\ pdf = NoPdf
    /\ fit = NoFit
    /\ memo = NoMemo
    /\ NoPortfolio

FitCall == \E q \in {1, 2} : \E D \in RawData(q) : FitBegin(D.X, D.y)

\* the objective, called from outside fit
ObjectiveOutside ==
    \E pt \in ObsPoints :
        /\ ~Running
        /\ ObjectiveCall(ThetaOf(2, <<1, 2>>, <<Ln(1, 2), Ln(4, 1)>>),
                         <<Row(2, pt[1])>>, <<I(pt[2])>>)
        /\ UNCHANGED <<memo, all_assets, cache, portfolios>>

NextFit == FitCall \/ FitExpand \/ FitGuess \/ FitFilter \/ ObjectiveOutside

SpecFit == InitFit /\ [][NextFit]_vars

----------------------------------------------------------------------------
(* repeated calls of the objective, one earlier call remembered *)

SameCall(m, l) == m.guess = l.guess /\ m.X = l.X /\ m.y = l.y

\* the call just made is remembered, or else noted as a call in between when
\* its arguments differ from the remembered call's
Remember(keep) ==
    memo' = IF keep
            THEN [kept |-> TRUE, between |-> FALSE,
                  guess |-> lik'.guess, X |-> lik'.X, y |-> lik'.y,
                  err |-> lik'.err, ret |-> lik'.ret]
            ELSE IF memo.kept /\ ~SameCall(memo, lik')
                 THEN [memo EXCEPT !.between = TRUE]
            ELSE memo

RepeatSeries == {pts \in Series : Len(pts) >= 2 /\ pts[1] = <<0, 1>>}

RepeatThetas ==
    {ThetaOf(2, <<1, 2>>, <<Ln(1, 2), Ln(4, 1)>>),
     ThetaOf(2, <<1, 2>>, <<Ln(2, 1), Ln(2, 1)>>)}

ObjectiveRepeat ==
    \E guess \in RepeatThetas, pts \in RepeatSeries, keep \in BOOLEAN :
        /\ ~Running
        /\ ObjectiveCall(guess, DataOf(2, pts).X, DataOf(2, pts).y)
        /\ Remember(keep)
        /\ UNCHANGED <<all_assets, cache, portfolios>>

NextRepeat == ObjectiveRepeat

SpecRepeat == Init /\ [][NextRepeat]_vars

----------------------------------------------------------------------------
(* portfolios built one after another in one process *)

MaxHarrys == 2

Tickers == {<<"A", "B">>, <<"B", "A">>}

\* daily prices whose log returns are 0, 1, 2; 2, 1, 0; and 0, 2, 4 times ln 2
PriceHistories == {<<1, 1, 2, 8>>, <<1, 4, 8, 8>>, <<1, 1, 4, 64>>}

\* the data frames: the column names, and one price series for each column
Frames ==
    {[columns |-> c, prices |-> ps] : c \in Tickers, ps \in [1..2 -> PriceHistories]}

\* Harry.__init__ ends: the assets were appended to Asset.all_assets as they
\* were constructed, the cache has served the call, the object exists
HarryDone(assets, call) ==
    /\ all_assets' = all_assets \o assets
    /\ cache' = call.cache
    /\ portfolios' = Append(portfolios, HarryOf(assets, call.result, "None"))

\* Harry.__init__, line 44: Asset.covariance_matrix(tuple(self))
HarryBuilt(assets) == HarryDone(assets, CovarianceMatrix(cache, assets))

\* Harry(historical_prices)
HarryInit(historical_prices) == HarryBuilt(FrameAssets(historical_prices))

Build ==
    \E historical_prices \in Frames :
        /\ Len(portfolios) < MaxHarrys
        /\ HarryInit(historical_prices)
        /\ UNCHANGED <<self, lik, pdf, fit, memo>>

NextHarry == Build

SpecHarry == Init /\ [][NextHarry]_vars

----------------------------------------------------------------------------
(* The claims *)

Rows(v) == 1..Len(v)

IsProbability(a) == IsFin(a) /\ a.e = 0 /\ 0 <= a.n /\ a.n <= a.d

StrictlyInside(a) == IsFin(a) /\ a.e = 0 /\ 0 < a.n /\ a.n < a.d

Positive(a) == IsFin(a) /\ a.n > 0

Filtered == lik.called /\ lik.err = ""

\* the stay probability of the logit ln(n/d): 1 / (1 + d/n) = n / (n + d)
StayProbability(z) == Q(z.n, z.n + z.d)

\* C1: after _loglikelihood has run the filter, every row of hfilter sums to 1
\* and both of its entries lie in [0, 1].
C1_FilteredRowsAreDistributions ==
    Filtered =>
        \A t \in Rows(lik.hfilter) :
            /\ \A j \in 1..2 : IsProbability(lik.hfilter[t][j])
            /\ SumSeq(lik.hfilter[t]) = One

C3_FitEvaluatesObjective ==
    fit.pc \in {"returned", "raised"} => fit.evaluated

\* C4: for a regime index outside {0, 1} the density evaluator raises the
\* invalid-regime error and returns no density; for 0 and 1 it does not raise
\* that error.
C4_InvalidRegimeRaises ==
    pdf.called =>
        /\ pdf.s \notin {0, 1} => pdf.err = RegimeError
        /\ pdf.s \in {0, 1} => pdf.err # RegimeError

\* the evaluator was called with regime 2 and raised
C4_Witness == pdf.called /\ pdf.s = 2 /\ pdf.err = RegimeError

\* C5: an evaluation of the objective with the parameter vector and the data of
\* an earlier evaluation ends as the earlier one did, with the same value,
\* whatever evaluations were made in between.
C5_ObjectiveRepeats ==
    (memo.kept /\ lik.called /\ SameCall(memo, lik)) =>
        (lik.err = memo.err /\ lik.ret = memo.ret)

\* an evaluation was repeated after an evaluation with other arguments
C5_Witness ==
    /\ memo.kept /\ memo.between
    /\ lik.called /\ SameCall(memo, lik)
    /\ lik.err = ""
    /\ self.has

\* C6: for p features and a parameter vector of length 2p + 4, the density
\* evaluator for regime s takes entries s*p .. (s+1)*p - 1 as the coefficients
\* and entry 2p + s as the variance.
C6_DensityReadsLayout ==
    (pdf.called /\ pdf.s \in {0, 1}) =>
        LET p == Len(pdf.xt)
        IN  /\ pdf.err = ""
            /\ pdf.beta = SubSeq(pdf.guess, pdf.s * p + 1, (pdf.s + 1) * p)
            /\ pdf.var = pdf.guess[2 * p + pdf.s + 1]

\* C7: in every iteration t >= 1 the unnormalised weights are the product of
\* predictions[t-1] with the two densities of observation t.
C7_WeightsUseDensitiesOfT ==
    Filtered =>
        \A i \in 2..Len(lik.X) :
            lik.weights[i] =
                Hadamard(lik.predictions[i - 1],
                         [s \in 1..2 |->
                            Normpdf(self, s - 1, lik.X[i], lik.y[i], lik.guess).ret])

\* the stationary distribution of the chain with stay probabilities p, q
Stationary(p, q) ==
    <<Div(Sub(One, q), Sub(I(2), Add(p, q))), Div(Sub(One, p), Sub(I(2), Add(p, q)))>>

\* C8: the filter is seeded: hfilter[0] is the stationary distribution of the
\* transition matrix.
C8_SeedIsStationary ==
    lik.called =>
        /\ lik.err # "LinAlgError"
        /\ lik.hfilter[1] = Stationary(lik.P[1][1], lik.P[2][2])

\* C9: predictions[t] is the transpose of the transition matrix applied to
\* hfilter[t].
C9_PredictionsUseTranspose ==
    Filtered =>
        \A t \in Rows(lik.hfilter) : \A j \in 1..2 :
            lik.predictions[t][j] =
                Add(Mul(lik.P[1][j], lik.hfilter[t][1]),
                    Mul(lik.P[2][j], lik.hfilter[t][2]))

\* C10: the density evaluator returns a strictly positive value, and so
\* cond_density[t] is strictly positive for every t >= 1.
C10_DensitiesArePositive ==
    /\ (pdf.called /\ pdf.err = "") => Positive(pdf.ret)
    /\ Filtered => \A i \in 2..Len(lik.X) : Positive(lik.cond_density[i])

\* C11: the log-likelihood is the mean of log(cond_density[t]) over
\* t = 1..n-1 only: the terms averaged are those n-1 logarithms, the term of
\* index 0, which the filter never assigns, is not among them, and the value
\* returned is minus nothing but their mean
C11_MeanSkipsIndexZero ==
    (Filtered /\ Len(lik.y) >= 2) =>
        /\ lik.logs = [t \in 1..(Len(lik.y) - 1) |-> Log(lik.cond_density[t + 1])]
        /\ lik.ret = Neg(Div(SumSeq(lik.logs), I(Len(lik.y) - 1)))

\* C12: an evaluation of the objective writes no state that outlives the
\* call: every attribute of the estimator is the same after _objective_func
\* returns as before it was called
C12_ObjectiveLeavesEstimator == [][lik'.called => self' = self]_vars

Names(assets) == [i \in DOMAIN assets |-> assets[i].name]

PricesOf(assets) == [i \in DOMAIN assets |-> assets[i].price_history]

\* a result computed for a tuple of these names is in the cache
StillCached(names) == \E i \in DOMAIN cache.entries : Names(cache.entries[i].key) = names

\* C13: while the entry is in the cache, a Harry built under the column names
\* of an earlier one has the earlier one's covariance matrix, whatever its own
\* prices are, and the body of Asset.covariance_matrix has run only once for
\* each tuple of names: every other call was served from the cache
C13_SameNamesShareCovariance ==
    /\ \A i, j \in DOMAIN portfolios :
        (/\ i < j
         /\ Names(portfolios[i].assets) = Names(portfolios[j].assets)
         /\ StillCached(Names(portfolios[i].assets)))
        => portfolios[j].covariance_matrix = portfolios[i].covariance_matrix
    /\ Len(cache.entries) = cache.misses =>
        /\ cache.misses = Cardinality({Names(portfolios[i].assets) : i \in DOMAIN portfolios})
        /\ cache.hits = Len(portfolios) - cache.misses

\* a second Harry, built from other prices under the first one's column
\* names, holds the first one's covariance matrix and not its own prices'
C13_Witness ==
    \E i, j \in DOMAIN portfolios :
        /\ i < j
        /\ Names(portfolios[i].assets) = Names(portfolios[j].assets)
        /\ PricesOf(portfolios[i].assets) # PricesOf(portfolios[j].assets)
        /\ portfolios[j].covariance_matrix = portfolios[i].covariance_matrix
        /\ portfolios[j].covariance_matrix # CovarianceBody(portfolios[j].assets)
        /\ cache.misses = 1 /\ cache.hits = 1

====
